---- MODULE Spec2Model ----
(***************************************************************************)
(* Model of ethereum_address_info.py: the Etherscan client                 *)
(* EthereumAddressInfo, its retrying request executor (_request with the   *)
(* tenacity decorator), the envelope classification (_parse_response) and  *)
(* the three facade operations.                                            *)
(*                                                                         *)
(* Text is modelled as a sequence of tokens (words, or single digits of a  *)
(* number); lower-casing, substring search and equality are computed on    *)
(* the tokens.  Time is counted in tenths of a second.                     *)
(***************************************************************************)
EXTENDS Integers, Sequences, FiniteSets, TLC

(***************************************************************************)
(* Bounds of the model                                                     *)
(***************************************************************************)
\* facade calls made on one client before it is closed
MaxCalls == 2

(***************************************************************************)
(* Program constants                                                       *)
(***************************************************************************)
\* stop=stop_after_attempt(3)
StopAfterAttempt == 3
\* wait_exponential_jitter(multiplier=2, ...)
WaitMultiplier == 2
\* wait_exponential_jitter(..., max=10)
WaitMax == 10
\* EthereumAPIConfig.rate_limit_wait: int = 5
DefaultRateLimitWait == 5
\* EthereumAPIConfig.max_retries: int = 3
DefaultMaxRetries == 3
\* EthereumAPIConfig.backoff_multiplier: float = 2.0
DefaultBackoffMultiplier == 2
\* EthereumAPIConfig.max_backoff: float = 10.0
DefaultMaxBackoff == 10
\* wei_to_eth(value, decimals: int = 18)
DefaultDecimals == 18

\* tenths of a second in n seconds
Seconds(n) == n * 10

(***************************************************************************)
(* Text                                                                    *)
(***************************************************************************)
\* str.lower() on one token
LowerToken(w) ==
    CASE w = "Max" -> "max"
      [] w = "Rate" -> "rate"
      [] w = "RATE" -> "rate"
      [] w = "Limit" -> "limit"
      [] w = "LIMIT" -> "limit"
      [] w = "Reached" -> "reached"
      [] w = "No" -> "no"
      [] w = "NOTOK" -> "notok"
      [] w = "OK" -> "ok"
      [] w = "Invalid" -> "invalid"
      [] w = "API" -> "api"
      [] w = "Key" -> "key"
      [] w = "None" -> "none"
      [] OTHER -> w

\* str.lower()
Lower(s) == [i \in 1..Len(s) |-> LowerToken(s[i])]

\* needle in s  (Python substring test)
Contains(s, needle) ==
    \E i \in 0..(Len(s) - Len(needle)) :
        \A k \in 1..Len(needle) : s[i + k] = needle[k]

\* the literal "rate limit"
RateLimitMarker == <<"rate", "limit">>
\* the literal "No transactions found"
NoTransactionsFound == <<"No", "transactions", "found">>

(***************************************************************************)
(* Python values carried by the JSON body                                  *)
(***************************************************************************)
PyStr(s) == [t |-> "str", s |-> s]
PyList(n) == [t |-> "list", n |-> n]
PyNone == [t |-> "none"]
PyDict(st, msg, res) == [t |-> "dict", status |-> st, message |-> msg, result |-> res]

\* str(value)
Str(v) ==
    CASE v.t = "str" -> v.s
      [] v.t = "none" -> <<"None">>
      [] v.t = "list" -> <<"[">> \o [i \in 1..v.n |-> "{tx}"] \o <<"]">>
      [] OTHER -> <<"{...}">>

OneEth == <<"1","0","0","0","0","0","0","0","0","0","0","0","0","0","0","0","0","0","0">>

Messages ==
    { <<>>, <<"NOTOK">>, <<"Max", "rate", "limit", "reached">> }

\* "1500000" and "0"
OneAndAHalfMillion == <<"1", "5", "0", "0", "0", "0", "0">>
Zero == <<"0">>

Results ==
    { PyStr(OneEth),
      PyStr(OneAndAHalfMillion),
      PyStr(NoTransactionsFound),
      PyStr(<<"Max", "Rate", "Limit", "Reached">>),
      PyStr(<<"Invalid", "API", "Key">>),
      PyList(2) }

Statuses == {"1", "0"}

Envelopes ==
    { PyDict(st, PyStr(m), r) : st \in Statuses, m \in Messages, r \in Results }

(***************************************************************************)
(* Exceptions                                                              *)
(***************************************************************************)
\* classes an exception of class c is an instance of
Bases(c) ==
    CASE c = "Timeout" -> {"Timeout", "RequestException", "Exception"}
      [] c = "HTTPError" -> {"HTTPError", "RequestException", "Exception"}
      [] c = "ConnectionError" -> {"ConnectionError", "RequestException", "Exception"}
      [] c = "SSLError" -> {"SSLError", "ConnectionError", "RequestException", "Exception"}
      [] c = "RequestsJSONDecodeError" ->
            {"RequestsJSONDecodeError", "RequestException", "ValueError", "Exception"}
      [] c = "JSONDecodeError" -> {"JSONDecodeError", "ValueError", "Exception"}
      [] c = "EthereumAPIError" -> {"EthereumAPIError", "Exception"}
      [] c = "EthereumRateLimitError" ->
            {"EthereumRateLimitError", "EthereumAPIError", "Exception"}
      [] c = "EthereumResponseError" ->
            {"EthereumResponseError", "EthereumAPIError", "Exception"}
      [] c = "ValueError" -> {"ValueError", "Exception"}
      [] c = "TypeError" -> {"TypeError", "Exception"}
      [] OTHER -> {c, "Exception"}

IsInstance(c, classes) == Bases(c) \cap classes # {}

Raise(cls, text, slept) == [ok |-> FALSE, exc |-> cls, text |-> text, slept |-> slept]
Return(v) == [ok |-> TRUE, value |-> v, slept |-> 0]

(***************************************************************************)
(* Configuration                                                           *)
(***************************************************************************)
EthereumAPIConfig(key, addr, retries, multiplier, backoff, rlwait) ==
    [api_key |-> key, address |-> addr, max_retries |-> retries,
     backoff_multiplier |-> multiplier, max_backoff |-> backoff,
     rate_limit_wait |-> rlwait]

\* the (max_retries, backoff_multiplier, max_backoff, rate_limit_wait)
\* tuples tried: the defaults, a smaller attempt budget, and a larger budget
\* with a larger base, a lower cap and a shorter wait
Tunings ==
    { <<DefaultMaxRetries, DefaultBackoffMultiplier, DefaultMaxBackoff,
        DefaultRateLimitWait>>,
      <<1, DefaultBackoffMultiplier, DefaultMaxBackoff, DefaultRateLimitWait>>,
      <<5, 3, 3, 1>> }

Configs ==
    { EthereumAPIConfig(key, addr, tuning[1], tuning[2], tuning[3], tuning[4]) :
        key \in {"", "KEY"}, addr \in {"", "0xADDR"}, tuning \in Tunings }

(***************************************************************************)
(* Response parsing                                                        *)
(***************************************************************************)
\* _parse_response looking for the rate-limit marker before the status
_parse_response_marker_first(cfg, data) ==
    IF data.t # "dict"
    THEN Raise("EthereumResponseError", <<"Unexpected", "response", "format">>, 0)
    ELSE LET status == data.status
             message == Lower(Str(data.message))
             result == data.result
         IN IF Contains(message, RateLimitMarker)
               \/ Contains(Lower(Str(result)), RateLimitMarker)
            THEN Raise("EthereumRateLimitError", <<"Rate", "limit", "reached">>,
                       Seconds(cfg.rate_limit_wait))
            ELSE IF status = "1"
            THEN Return(result)
            ELSE IF status = "0" /\ result = PyStr(NoTransactionsFound)
            THEN Return(PyList(0))
            ELSE Raise("EthereumAPIError",
                       <<"Etherscan", "error:">>
                           \o (IF message # <<>> THEN message ELSE Str(result)),
                       0)

\* _parse_response comparing the result with the lower-cased sentinel
_parse_response_lowered_sentinel(cfg, data) ==
    IF data.t # "dict"
    THEN Raise("EthereumResponseError", <<"Unexpected", "response", "format">>, 0)
    ELSE LET status == data.status
             message == Lower(Str(data.message))
             result == data.result
         IN IF status = "1"
            THEN Return(result)
            ELSE IF Contains(message, RateLimitMarker)
                    \/ Contains(Lower(Str(result)), RateLimitMarker)
            THEN Raise("EthereumRateLimitError", <<"Rate", "limit", "reached">>,
                       Seconds(cfg.rate_limit_wait))
            ELSE IF status = "0" /\ result = PyStr(Lower(NoTransactionsFound))
            THEN Return(PyList(0))
            ELSE Raise("EthereumAPIError",
                       <<"Etherscan", "error:">>
                           \o (IF message # <<>> THEN message ELSE Str(result)),
                       0)

\* _parse_response: the value returned or the exception raised, with the
\* time slept inside the call
_parse_response(cfg, data) ==
    IF data.t # "dict"
    THEN Raise("EthereumResponseError", <<"Unexpected", "response", "format">>, 0)
    ELSE LET status == data.status
             message == Lower(Str(data.message))
             result == data.result
         IN IF status = "1"
            THEN Return(result)
            ELSE IF Contains(message, RateLimitMarker)
                    \/ Contains(Lower(Str(result)), RateLimitMarker)
            THEN Raise("EthereumRateLimitError", <<"Rate", "limit", "reached">>,
                       Seconds(cfg.rate_limit_wait))
            ELSE IF status = "0" /\ result = PyStr(NoTransactionsFound)
            THEN Return(PyList(0))
            ELSE Raise("EthereumAPIError",
                       <<"Etherscan", "error:">>
                           \o (IF message # <<>> THEN message ELSE Str(result)),
                       0)

(***************************************************************************)
(* What the provider and the transport can do to one HTTP GET              *)
(***************************************************************************)
TransportFailure(cls) == [k |-> "raise", exc |-> cls]
Body(data) == [k |-> "body", data |-> data]

TransportExceptions ==
    {"Timeout", "HTTPError", "ConnectionError", "SSLError",
     "RequestsJSONDecodeError", "JSONDecodeError"}

Outcomes ==
    { TransportFailure(c) : c \in TransportExceptions }
        \cup { Body(e) : e \in Envelopes }
        \cup { Body(PyList(0)) }

\* the body of _request: one HTTP GET, its except clauses in order, then
\* _parse_response
RequestOnce(cfg, o) ==
    IF o.k = "raise"
    THEN IF IsInstance(o.exc, {"Timeout"})
         THEN Raise(o.exc, <<>>, 0)
         ELSE IF IsInstance(o.exc, {"HTTPError"})
         THEN Raise(o.exc, <<>>, 0)
         ELSE IF IsInstance(o.exc, {"RequestException"})
         THEN Raise("EthereumAPIError", <<"Network", "error:", o.exc>>, 0)
         ELSE IF IsInstance(o.exc, {"ValueError"})
         THEN Raise("EthereumResponseError", <<"Invalid", "JSON", "response">>, 0)
         ELSE Raise(o.exc, <<>>, 0)
    ELSE _parse_response(cfg, o.data)

(***************************************************************************)
(* The retry decorator                                                     *)
(***************************************************************************)
\* retry=retry_if_exception_type((Timeout, HTTPError, EthereumAPIError))
RetryIfExceptionType(exc) ==
    IsInstance(exc, {"Timeout", "HTTPError", "EthereumAPIError"})

\* a stop condition that lets one attempt too many through
StopOffByOne(attempt_number) == attempt_number > StopAfterAttempt

\* stop=stop_after_attempt(3)
Stop(attempt_number) == attempt_number >= StopAfterAttempt

\* the decorator's default, reraise=False
ReraiseOff == FALSE

\* reraise=True
Reraise == TRUE

RECURSIVE Pow(_, _)
Pow(b, e) == IF e = 0 THEN 1 ELSE b * Pow(b, e - 1)

Min(a, b) == IF a < b THEN a ELSE b

\* jitter drawn by random.uniform(0, 1), in tenths of a second
Jitters == {0, 10}

\* wait=wait_exponential_jitter(multiplier=2, max=10): the delay after the
\* attempt_number-th failed attempt, in tenths of a second, read as the
\* keyword arguments say: multiplier * 2^(attempt_number - 1) + jitter,
\* capped at max
WaitExponentialJitter(attempt_number, jitter) ==
    Min(Seconds(WaitMultiplier * Pow(2, attempt_number - 1)) + jitter,
        Seconds(WaitMax))

\* the exception the decorator surfaces once it stops retrying
Surfaced(r) ==
    IF Reraise THEN [kind |-> "raise", exc |-> r.exc, text |-> r.text]
    ELSE [kind |-> "raise", exc |-> "RetryError", text |-> <<>>]

(***************************************************************************)
(* Utilities                                                               *)
(***************************************************************************)
Digits == {"0", "1", "2", "3", "4", "5", "6", "7", "8", "9"}

RECURSIVE StripLeft(_)
StripLeft(d) == IF d # <<>> /\ Head(d) = "0" THEN StripLeft(Tail(d)) ELSE d

RECURSIVE StripRight(_)
StripRight(d) ==
    IF d # <<>> /\ d[Len(d)] = "0" THEN StripRight(SubSeq(d, 1, Len(d) - 1)) ELSE d

\* str.strip(): the whitespace int() ignores around a literal
RECURSIVE Strip(_)
Strip(s) ==
    IF s # <<>> /\ Head(s) = " " THEN Strip(Tail(s))
    ELSE IF s # <<>> /\ s[Len(s)] = " " THEN Strip(SubSeq(s, 1, Len(s) - 1))
    ELSE s

\* int(value): the sign and digits, or the exception raised
PyInt(value) ==
    IF value.t # "str"
    THEN [ok |-> FALSE, exc |-> "TypeError"]
    ELSE LET s == Strip(value.s)
             signed == s # <<>> /\ Head(s) \in {"-", "+"}
             d == IF signed THEN Tail(s) ELSE s
         IN IF d # <<>> /\ \A i \in 1..Len(d) : d[i] \in Digits
            THEN [ok |-> TRUE, neg |-> signed /\ Head(s) = "-", digits |-> d]
            ELSE [ok |-> FALSE, exc |-> "ValueError"]

\* a float as a decimal: sign, digits of the mantissa and power of ten
PyFloat(neg, digits, exp) ==
    LET d == StripLeft(digits)
        m == StripRight(d)
    IN IF m = <<>> THEN [t |-> "float", neg |-> FALSE, digits |-> <<>>, exp |-> 0]
       ELSE [t |-> "float", neg |-> neg, digits |-> m,
             exp |-> exp + (Len(d) - Len(m))]

\* wei_to_eth whose except clause names ValueError only
wei_to_eth_value_error_only(value, decimals) ==
    LET n == PyInt(value)
    IN IF n.ok
       THEN [kind |-> "return", value |-> PyFloat(n.neg, n.digits, 0 - decimals)]
       ELSE IF IsInstance(n.exc, {"ValueError"})
       THEN [kind |-> "return", value |-> PyFloat(FALSE, <<>>, 0)]
       ELSE [kind |-> "raise", exc |-> n.exc, text |-> <<>>]

\* wei_to_eth: int(value) / 10**decimals, 0.0 on TypeError or ValueError
wei_to_eth(value, decimals) ==
    LET n == PyInt(value)
    IN IF n.ok
       THEN [kind |-> "return", value |-> PyFloat(n.neg, n.digits, 0 - decimals)]
       ELSE IF IsInstance(n.exc, {"TypeError", "ValueError"})
       THEN [kind |-> "return", value |-> PyFloat(FALSE, <<>>, 0)]
       ELSE [kind |-> "raise", exc |-> n.exc, text |-> <<>>]

(***************************************************************************)
(* State                                                                   *)
(***************************************************************************)
VARIABLES
    config,     \* the EthereumAPIConfig given to the constructor
    pc,         \* "new", "rejected", "ready", "request", "closed"
    session,    \* "none", "open", "closed"
    op,         \* the facade operation in progress
    contract,   \* the contract_address argument of the operation in progress
    decimals,   \* the decimals argument of the operation in progress
    attempt,    \* tenacity's attempt_number of the next attempt
    gets,       \* HTTP GETs issued by the call in progress or last finished
    sleeps,     \* time.sleep(rate_limit_wait) executed by that call
    gap,        \* [sleep, backoff]: the latest wait between two attempts
    history,    \* what each attempt of that call ended with
    last,       \* the provider outcome of the latest attempt
    payload,    \* what _request returned to the facade operation
    ret,        \* what the latest facade call returned or raised
    calls       \* facade calls made so far

vars == <<config, pc, session, op, contract, decimals, attempt, gets, sleeps, gap,
          history, last, payload, ret, calls>>

NoGap == [sleep |-> 0, backoff |-> 0]
Nothing == [k |-> "nothing"]
NoResult == [kind |-> "none"]

Init ==
    /\ config \in Configs
    /\ pc = "new"
    /\ session = "none"
    /\ op = "none"
    /\ contract = ""
    /\ decimals = DefaultDecimals
    /\ attempt = 1
    /\ gets = 0
    /\ sleeps = 0
    /\ gap = NoGap
    /\ history = <<>>
    /\ last = Nothing
    /\ payload = Nothing
    /\ ret = NoResult
    /\ calls = 0

\* __init__ that validates the API key only
ConstructKeyOnly ==
    /\ pc = "new"
    /\ IF config.api_key = ""
       THEN /\ pc' = "rejected"
            /\ ret' = [kind |-> "raise", exc |-> "ValueError", text |-> <<>>]
            /\ UNCHANGED session
       ELSE /\ pc' = "ready"
            /\ session' = "open"
            /\ UNCHANGED ret
    /\ UNCHANGED <<config, op, contract, decimals, attempt, gets, sleeps, gap, history,
                   last, payload, calls>>

\* EthereumAddressInfo.__init__
Construct ==
    /\ pc = "new"
    /\ IF config.api_key = "" \/ config.address = ""
       THEN /\ pc' = "rejected"
            /\ ret' = [kind |-> "raise", exc |-> "ValueError", text |-> <<>>]
            /\ UNCHANGED session
       ELSE /\ pc' = "ready"
            /\ session' = "open"
            /\ UNCHANGED ret
    /\ UNCHANGED <<config, op, contract, decimals, attempt, gets, sleeps, gap, history,
                   last, payload, calls>>

\* entry of a facade operation up to its call of _request
Begin(operation, contract_address, dec) ==
    /\ pc' = "request"
    /\ op' = operation
    /\ contract' = contract_address
    /\ decimals' = dec
    /\ attempt' = 1
    /\ gets' = 0
    /\ sleeps' = 0
    /\ gap' = NoGap
    /\ history' = <<>>
    /\ last' = Nothing
    /\ payload' = Nothing
    /\ ret' = NoResult
    /\ calls' = calls + 1
    /\ UNCHANGED <<config, session>>

\* get_balance
GetBalance ==
    /\ pc = "ready"
    /\ calls < MaxCalls
    /\ Begin("balance", "", DefaultDecimals)

\* get_transactions
GetTransactions ==
    /\ pc = "ready"
    /\ calls < MaxCalls
    /\ Begin("txlist", "", DefaultDecimals)

\* get_token_balance without the test of contract_address
GetTokenBalanceUnguarded ==
    /\ pc = "ready"
    /\ calls < MaxCalls
    /\ \E contract_address \in {"", "0xTOKEN"}, dec \in {DefaultDecimals, 6} :
        Begin("tokenbalance", contract_address, dec)

\* get_token_balance
GetTokenBalance ==
    /\ pc = "ready"
    /\ calls < MaxCalls
    /\ \E contract_address \in {"", "0xTOKEN"}, dec \in {DefaultDecimals, 6} :
        IF contract_address = ""
        THEN /\ ret' = [kind |-> "return", value |-> PyNone]
             /\ op' = "tokenbalance"
             /\ contract' = contract_address
             /\ decimals' = dec
             /\ attempt' = 1
             /\ gets' = 0
             /\ sleeps' = 0
             /\ gap' = NoGap
             /\ history' = <<>>
             /\ last' = Nothing
             /\ payload' = Nothing
             /\ calls' = calls + 1
             /\ UNCHANGED <<config, pc, session>>
        ELSE Begin("tokenbalance", contract_address, dec)

\* the facade operations all converting with the default decimals
FinishDefaultDecimals(operation, dec, value) ==
    CASE operation = "balance" -> wei_to_eth(value, DefaultDecimals)
      [] operation = "tokenbalance" -> wei_to_eth(value, DefaultDecimals)
      [] OTHER ->
            IF value.t = "none"
            THEN [kind |-> "raise", exc |-> "TypeError", text |-> <<>>]
            ELSE [kind |-> "return", value |-> value]

\* what the facade operation does with the payload _request returned
Finish(operation, dec, value) ==
    CASE operation = "balance" -> wei_to_eth(value, DefaultDecimals)
      [] operation = "tokenbalance" -> wei_to_eth(value, dec)
      [] OTHER ->
            IF value.t = "none"
            THEN [kind |-> "raise", exc |-> "TypeError", text |-> <<>>]
            ELSE [kind |-> "return", value |-> value]

\* one attempt of _request under the retry decorator: the GET, the
\* classification, and then return, retry after the wait, or raise
Attempt ==
    /\ pc = "request"
    /\ \E o \in Outcomes, jitter \in Jitters :
        LET r == RequestOnce(config, o)
        IN /\ last' = o
           /\ gets' = gets + 1
           /\ sleeps' = sleeps + (IF r.slept > 0 THEN 1 ELSE 0)
           /\ IF r.ok
              THEN /\ history' = Append(history, "return")
                   /\ payload' = r.value
                   /\ ret' = Finish(op, decimals, r.value)
                   /\ pc' = "ready"
                   /\ UNCHANGED <<attempt, gap>>
              ELSE /\ history' = Append(history, r.exc)
                   /\ IF RetryIfExceptionType(r.exc) /\ ~Stop(attempt)
                      THEN /\ attempt' = attempt + 1
                           /\ gap' = [sleep |-> r.slept,
                                      backoff |-> WaitExponentialJitter(attempt, jitter)]
                           /\ UNCHANGED <<pc, payload, ret>>
                      ELSE /\ ret' = Surfaced(r)
                           /\ pc' = "ready"
                           /\ UNCHANGED <<attempt, gap, payload>>
    /\ UNCHANGED <<config, session, op, contract, decimals, calls>>

\* EthereumAddressInfo.__exit__
Close ==
    /\ pc = "ready"
    /\ pc' = "closed"
    /\ session' = "closed"
    /\ UNCHANGED <<config, op, contract, decimals, attempt, gets, sleeps, gap, history,
                   last, payload, ret, calls>>

Next ==
    \/ Construct
    \/ GetBalance
    \/ GetTransactions
    \/ GetTokenBalance
    \/ Attempt
    \/ Close

Spec == Init /\ [][Next]_vars

(***************************************************************************)
(* main: the three operations inside the with block                        *)
(***************************************************************************)
\* main up to the entry of the with block: the check of the environment,
\* then EthereumAddressInfo(config) and __enter__
MainEnter ==
    /\ pc = "new"
    /\ IF config.api_key = "" \/ config.address = ""
       THEN /\ pc' = "returned"
            /\ UNCHANGED session
       ELSE /\ pc' = "ready"
            /\ session' = "open"
    /\ UNCHANGED <<config, op, contract, decimals, attempt, gets, sleeps, gap,
                   history, last, payload, ret, calls>>

\* eth.get_balance()
MainGetBalance ==
    /\ pc = "ready"
    /\ op = "none"
    /\ Begin("balance", "", DefaultDecimals)

\* txs = eth.get_transactions()
MainGetTransactions ==
    /\ pc = "ready"
    /\ op = "balance"
    /\ ret.kind = "return"
    /\ Begin("txlist", "", DefaultDecimals)

\* if contract_address: eth.get_token_balance(contract_address, token_decimals)
MainGetTokenBalance ==
    /\ pc = "ready"
    /\ op = "txlist"
    /\ ret.kind = "return"
    /\ \E token_decimals \in {DefaultDecimals, 6} :
        Begin("tokenbalance", "0xTOKEN", token_decimals)

\* the with block is left, by an exception or at its end, without closing
\* the session when an exception is propagating
MainExitLeaky ==
    /\ pc = "ready"
    /\ \/ ret.kind = "raise"
       \/ op = "tokenbalance"
       \/ op = "txlist" /\ ret.kind = "return"
    /\ pc' = "closed"
    /\ session' = IF ret.kind = "raise" THEN session ELSE "closed"
    /\ UNCHANGED <<config, op, contract, decimals, attempt, gets, sleeps, gap,
                   history, last, payload, ret, calls>>

\* the with block is left, by an exception or at its end (also when
\* TOKEN_CONTRACT_ADDRESS is unset): __exit__, then the except clauses
MainExit ==
    /\ pc = "ready"
    /\ \/ ret.kind = "raise"
       \/ op = "tokenbalance"
       \/ op = "txlist" /\ ret.kind = "return"
    /\ pc' = "closed"
    /\ session' = "closed"
    /\ UNCHANGED <<config, op, contract, decimals, attempt, gets, sleeps, gap,
                   history, last, payload, ret, calls>>

NextMain ==
    \/ MainEnter
    \/ MainGetBalance
    \/ MainGetTransactions
    \/ MainGetTokenBalance
    \/ Attempt
    \/ MainExit

SpecMain == Init /\ [][NextMain]_vars /\ WF_vars(NextMain)

(***************************************************************************)
(* wei_to_eth called on its own                                            *)
(***************************************************************************)
\* values that int() does not accept
NonNumericQuantities ==
    { PyNone,
      PyStr(<<>>),
      PyStr(<<" ">>),
      PyStr(<<"abc">>),
      PyStr(<<"1", ".", "5">>),
      PyStr(<<"1", "e", "5">>),
      PyStr(<<"-">>),
      PyStr(<<"1", " ", "2">>),
      PyStr(NoTransactionsFound),
      PyList(0),
      PyList(2),
      PyDict("1", PyStr(<<>>), PyStr(Zero)) }

\* decimal strings
NumericQuantities ==
    { PyStr(Zero),
      PyStr(<<"7">>),
      PyStr(<<"1", "2", "3">>),
      PyStr(<<"0", "0", "7", "0">>),
      PyStr(<<"4", "0", "5", "0", "0">>),
      PyStr(<<" ", "4", "2", " ">>),
      PyStr(<<"+", "9">>),
      PyStr(<<"-", "5", "0">>),
      PyStr(OneAndAHalfMillion),
      PyStr(OneEth) }

DecimalCounts == {0, 1, 6, DefaultDecimals}

InitConv ==
    /\ config = EthereumAPIConfig("KEY", "0xADDR", DefaultMaxRetries,
                                  DefaultBackoffMultiplier, DefaultMaxBackoff,
                                  DefaultRateLimitWait)
    /\ pc = "static"
    /\ session = "none"
    /\ op = "none"
    /\ contract = ""
    /\ decimals \in DecimalCounts
    /\ attempt = 1
    /\ gets = 0
    /\ sleeps = 0
    /\ gap = NoGap
    /\ history = <<>>
    /\ last = Nothing
    /\ payload \in NonNumericQuantities \cup NumericQuantities
    /\ ret = NoResult
    /\ calls = 0

\* EthereumAddressInfo.wei_to_eth(payload, decimals)
Convert ==
    /\ pc = "static"
    /\ pc' = "converted"
    /\ ret' = wei_to_eth(payload, decimals)
    /\ UNCHANGED <<config, session, op, contract, decimals, attempt, gets,
                   sleeps, gap, history, last, payload, calls>>

NextConv == Convert

SpecConv == InitConv /\ [][NextConv]_vars

\* the client and the conversion on its own, side by side
InitAll == Init \/ InitConv

NextAll == Next \/ NextConv

SpecAll == InitAll /\ [][NextAll]_vars

(***************************************************************************)
(* Properties                                                              *)
(***************************************************************************)
\* the call of _request has ended
CallOver == pc \in {"ready", "closed"}

Count(cls) == Cardinality({ i \in 1..Len(history) : history[i] \in cls })
OnlyOf(cls) == history # <<>> /\ \A i \in 1..Len(history) : history[i] \in cls
Latest == history[Len(history)]
TransportRetryable == {"Timeout", "HTTPError"}
ThreeTimeouts == <<"Timeout", "Timeout", "Timeout">>

\* C1: one call of _request issues at most 3 HTTP GETs and then ends with a
\* payload or an error; after three timeouts the call has failed and no
\* fourth GET can be sent.
C1_AtMostThreeGets ==
    /\ gets <= 3
    /\ gets = Len(history)
    /\ pc = "request" => gets < 3
    /\ gets = 3 => CallOver /\ ret.kind \in {"return", "raise"}
    /\ history = ThreeTimeouts => ret.kind = "raise" /\ payload = Nothing

C1_Witness ==
    /\ history = ThreeTimeouts
    /\ pc = "ready"
    /\ gets = 3
    /\ ret.kind = "raise"

\* the attempt budget was consumed by timeouts and HTTP-status errors only
BudgetConsumedByTransport ==
    /\ CallOver
    /\ ret.kind = "raise"
    /\ gets = StopAfterAttempt
    /\ OnlyOf(TransportRetryable)

\* C2 as claimed: when the budget is consumed by timeouts or HTTP-status
\* errors, the call fails with a dedicated error kind distinct from the
\* timeout / HTTP-status error of the last attempt.
C2_DedicatedRetryExhausted ==
    BudgetConsumedByTransport => ret.exc \notin TransportRetryable

\* C2 as amended: when the budget is consumed by timeouts or HTTP-status
\* errors, the call fails by re-raising the timeout / HTTP-status error of
\* the last attempt itself.
C2_ReraisesLastError ==
    BudgetConsumedByTransport =>
        /\ ret.exc = Latest
        /\ ret.exc \in TransportRetryable

C2_Witness ==
    /\ BudgetConsumedByTransport
    /\ history = <<"Timeout", "Timeout", "HTTPError">>
    /\ ret.exc = "HTTPError"

NetworkFailure(o) == o.k = "raise" /\ o.exc \in {"ConnectionError", "SSLError"}

\* C3: a transport exception other than timeout or HTTP-status error ends
\* the call at once: the error is raised to the caller, no wait is scheduled
\* and no further GET follows.
C3_NetworkErrorFailsImmediately ==
    NetworkFailure(last) =>
        /\ CallOver
        /\ ret.kind = "raise"
        /\ ret.exc = "EthereumAPIError"
        /\ attempt = gets

HasMarker(env) ==
    \/ Contains(Lower(Str(env.message)), RateLimitMarker)
    \/ Contains(Lower(Str(env.result)), RateLimitMarker)

IsEnvelope(o) == o.k = "body" /\ o.data.t = "dict"

ProviderErrorEnvelope(o) ==
    /\ IsEnvelope(o)
    /\ o.data.status = "0"
    /\ o.data.result # PyStr(NoTransactionsFound)
    /\ ~HasMarker(o.data)

\* C4: a status "0" envelope that is neither the no-records sentinel nor
\* rate-limit-marked ends the call at once with a provider error carrying
\* the provider's text; the request is not retried.
C4_ProviderErrorFailsImmediately ==
    ProviderErrorEnvelope(last) =>
        /\ CallOver
        /\ ret.kind = "raise"
        /\ ret.exc = "EthereumAPIError"
        /\ attempt = gets

Malformed(o) ==
    \/ o.k = "raise" /\ IsInstance(o.exc, {"ValueError"})
    \/ o.k = "body" /\ o.data.t # "dict"

\* C5: a body that is not valid JSON, or not an envelope object, ends the
\* call at once with an error; the request is not retried.
C5_MalformedFailsImmediately ==
    Malformed(last) =>
        /\ CallOver
        /\ ret.kind = "raise"
        /\ attempt = gets

RateLimited == {"EthereumRateLimitError"}

\* C6 as claimed: with maxRetries = 3, transport errors and rate-limit
\* conditions are counted separately, so a call whose attempts so far failed
\* with fewer than 3 transport errors and fewer than 3 rate-limit conditions
\* goes on retrying.
C6_SeparateBudgets ==
    ( /\ config.max_retries = 3
      /\ OnlyOf(TransportRetryable \cup RateLimited)
      /\ Count(TransportRetryable) < 3
      /\ Count(RateLimited) < 3 )
    => pc = "request"

\* C6 as amended: transport errors and rate-limit conditions draw on one
\* shared budget of 3 attempts, so a call that sees two timeouts and then a
\* rate-limit-marked envelope fails with the rate-limit error after its
\* third GET.
C6_SharedBudget ==
    /\ Count(TransportRetryable) + Count(RateLimited) <= 3
    /\ pc = "request" => Count(TransportRetryable) + Count(RateLimited) < 3
    /\ history = <<"Timeout", "Timeout", "EthereumRateLimitError">> =>
        /\ CallOver
        /\ gets = 3
        /\ ret.kind = "raise"
        /\ ret.exc = "EthereumRateLimitError"

C6_Witness ==
    /\ config.max_retries = 3
    /\ history = <<"Timeout", "Timeout", "EthereumRateLimitError">>
    /\ pc = "ready"
    /\ ret.kind = "raise"

RateLimitedThenSuccess ==
    /\ Len(history) >= 2
    /\ history[Len(history) - 1] = "EthereumRateLimitError"
    /\ Latest = "return"

\* C7: when a rate-limit-marked envelope is followed by a success, the call
\* returns the payload and the time waited between the two attempts is the
\* configured rate-limit wait exactly.
C7_WaitIsRateLimitWait ==
    RateLimitedThenSuccess =>
        /\ ret.kind = "return"
        /\ gap.sleep + gap.backoff = Seconds(config.rate_limit_wait)

\* C8: a call whose every attempt times out issues exactly max_retries GETs
\* before it fails.
C8_BudgetIsMaxRetries ==
    (CallOver /\ OnlyOf({"Timeout"})) => gets = config.max_retries

SentinelEnvelope(o) ==
    /\ IsEnvelope(o)
    /\ o.data.status = "0"
    /\ o.data.result = PyStr(NoTransactionsFound)

EmptySequenceAtOnce ==
    /\ CallOver
    /\ Latest = "return"
    /\ ret = [kind |-> "return", value |-> PyList(0)]
    /\ sleeps = Count(RateLimited)
    /\ gets = 1 => sleeps = 0 /\ gap = NoGap

\* C9 as claimed: for every message, a status "0" envelope whose result is
\* the no-records sentinel makes get_transactions return an empty sequence
\* after that attempt, without error, wait or retry.
C9_SentinelAnyMessage ==
    (op = "txlist" /\ SentinelEnvelope(last)) => EmptySequenceAtOnce

\* C9 as amended: a status "0" envelope whose result is the no-records
\* sentinel and whose message does not contain the rate-limit marker makes
\* get_transactions return an empty sequence after that attempt, without
\* error, wait or retry.
C9_SentinelUnmarkedMessage ==
    (op = "txlist" /\ SentinelEnvelope(last) /\ ~HasMarker(last.data))
        => EmptySequenceAtOnce

C9_Witness ==
    /\ op = "txlist"
    /\ SentinelEnvelope(last)
    /\ last.data.message = PyStr(<<"NOTOK">>)
    /\ gets = 1
    /\ ret = [kind |-> "return", value |-> PyList(0)]

StatusOne(o) == IsEnvelope(o) /\ o.data.status = "1"

\* C10: a status "1" envelope makes _request return its result unchanged
\* after that attempt, whatever message and result contain; it is not
\* classified as rate-limited, empty or error, and causes no wait or retry.
C10_StatusOneReturnsResult ==
    StatusOne(last) =>
        /\ CallOver
        /\ Latest = "return"
        /\ payload = last.data.result
        /\ sleeps = Count(RateLimited)
        /\ gets = 1 => sleeps = 0 /\ gap = NoGap

C10_Witness ==
    /\ StatusOne(last)
    /\ HasMarker(last.data)
    /\ gets = 1
    /\ payload = last.data.result
    /\ pc = "ready"

\* C11: when every attempt up to the budget returns a rate-limit-marked
\* envelope with status other than "1", the call fails with the rate-limit
\* error after its third GET and sends no further request.
C11_RateLimitExhausted ==
    /\ (IsEnvelope(last) /\ last.data.status # "1" /\ HasMarker(last.data))
        => Latest = "EthereumRateLimitError"
    /\ (OnlyOf(RateLimited) /\ Len(history) = 3) =>
        /\ CallOver
        /\ gets = 3
        /\ ret.kind = "raise"
        /\ ret.exc = "EthereumRateLimitError"

C11_Witness ==
    /\ history = <<"EthereumRateLimitError", "EthereumRateLimitError",
                   "EthereumRateLimitError">>
    /\ pc = "ready"
    /\ gets = 3
    /\ ret.exc = "EthereumRateLimitError"

\* C12: get_token_balance with an empty contract address returns None and
\* issues no HTTP request, whatever the client did before.
C12_EmptyContractNoRequest ==
    (op = "tokenbalance" /\ contract = "") =>
        /\ CallOver
        /\ ret = [kind |-> "return", value |-> PyNone]
        /\ gets = 0
        /\ sleeps = 0
        /\ history = <<>>
        /\ last = Nothing

C12_Witness ==
    /\ op = "tokenbalance"
    /\ contract = ""
    /\ calls = 2
    /\ pc = "ready"
    /\ ret = [kind |-> "return", value |-> PyNone]

MissingConfig == config.api_key = "" \/ config.address = ""

\* C13: with the API key or the address missing or empty, construction is
\* rejected (or main returns before it) and no session is opened, no
\* operation runs and no HTTP request is issued.
C13_FailFast ==
    MissingConfig =>
        /\ pc \in {"new", "rejected", "returned"}
        /\ pc = "rejected" => ret.kind = "raise" /\ ret.exc = "ValueError"
        /\ session = "none"
        /\ calls = 0
        /\ gets = 0
        /\ last = Nothing

C13_Witness ==
    /\ config.api_key = "KEY"
    /\ config.address = ""
    /\ pc = "rejected"
    /\ gets = 0

ZeroFloat == [t |-> "float", neg |-> FALSE, digits |-> <<>>, exp |-> 0]

\* C14: for every non-numeric or null quantity and every decimal count,
\* wei_to_eth returns 0.0 and does not raise.
C14_NonNumericIsZero ==
    (pc = "converted" /\ payload \in NonNumericQuantities) =>
        ret = [kind |-> "return", value |-> ZeroFloat]

C14_Witness ==
    /\ pc = "converted"
    /\ payload = PyNone
    /\ decimals = 6
    /\ ret = [kind |-> "return", value |-> ZeroFloat]

Zeros(n) == [i \in 1..n |-> "0"]

\* the digits of a decimal string, without blanks, sign and leading zeros
Magnitude(q) ==
    StripLeft(SelectSeq(q, LAMBDA c : c \in Digits))

\* the float f is the decimal string q divided by 10^d
IsQuotient(f, q, d) ==
    IF Magnitude(q) = <<>>
    THEN f = ZeroFloat
    ELSE /\ f.t = "float"
         /\ f.neg = (\E i \in 1..Len(q) : q[i] = "-")
         /\ f.digits # <<>>
         /\ f.exp + d >= 0
         /\ f.digits \o Zeros(f.exp + d) = Magnitude(q)

IsDecimalString(v) == v \in NumericQuantities

\* C15: for every decimal-string quantity q and decimal count d of the
\* bounded sets, wei_to_eth returns q / 10^d; get_balance converts the
\* payload with 18 decimals, so that "1000000000000000000" gives 1.0, and
\* get_token_balance converts with the decimals of its caller.
C15_ConversionIsQuotient ==
    /\ (pc = "converted" /\ IsDecimalString(payload)) =>
        /\ ret.kind = "return"
        /\ IsQuotient(ret.value, payload.s, decimals)
    /\ (CallOver /\ op = "balance" /\ IsDecimalString(payload)) =>
        /\ ret.kind = "return"
        /\ IsQuotient(ret.value, payload.s, 18)
    /\ (CallOver /\ op = "tokenbalance" /\ IsDecimalString(payload)) =>
        /\ ret.kind = "return"
        /\ IsQuotient(ret.value, payload.s, decimals)
    /\ (CallOver /\ op = "balance" /\ StatusOne(last)
            /\ last.data.result = PyStr(OneEth)) =>
        ret = [kind |-> "return",
               value |-> [t |-> "float", neg |-> FALSE, digits |-> <<"1">>,
                          exp |-> 0]]

C15_Witness ==
    /\ pc = "ready"
    /\ op = "tokenbalance"
    /\ decimals = 6
    /\ payload = PyStr(OneAndAHalfMillion)
    /\ ret = [kind |-> "return",
              value |-> [t |-> "float", neg |-> FALSE, digits |-> <<"1", "5">>,
                         exp |-> -1]]

\* C16: the delay before a retry is min(base^attempt + jitter, max_backoff)
\* with the configured base and max_backoff and a jitter of at most one
\* second, and so never exceeds the configured max_backoff.
C16_BackoffFollowsConfig ==
    (pc = "request" /\ attempt > 1) =>
        /\ gap.backoff <= Seconds(config.max_backoff)
        /\ \E jitter \in 0..10 :
            gap.backoff =
                Min(Seconds(Pow(config.backoff_multiplier, attempt - 1)) + jitter,
                    Seconds(config.max_backoff))

\* C17: in main the session opened for the with block is closed when the
\* block is left, normally or by an exception of any kind, and no HTTP GET is
\* issued once the session is closed.
C17_SessionReleased ==
    /\ [](pc = "closed" => session = "closed")
    /\ [][session = "closed" => (session' = "closed" /\ gets' = gets)]_vars
    /\ (session = "open") ~> (session = "closed")

C17_Witness ==
    /\ session = "closed"
    /\ op = "txlist"
    /\ ret.kind = "raise"
    /\ ret.exc = "EthereumRateLimitError"

\* C18: every rate-limit sleep of a call is followed by another attempt: a
\* finished call has slept fewer times than it issued GETs, and a call that
\* ended on a rate-limit-marked envelope did not sleep for that envelope.
C18_SleepOnlyBeforeRetry ==
    (CallOver /\ gets > 0) =>
        /\ sleeps < gets
        /\ Latest = "EthereumRateLimitError" => sleeps < Count(RateLimited)

\* C19: a call that fails after attempts of mixed kinds raises the error of
\* its final attempt; rate-limited, rate-limited, timeout raises the
\* timeout, and timeout, timeout, rate-limited raises the rate-limit error.
C19_LastErrorSurfaces ==
    /\ (CallOver /\ history # <<>> /\ Latest # "return") =>
        /\ ret.kind = "raise"
        /\ ret.exc = Latest
    /\ history = <<"EthereumRateLimitError", "EthereumRateLimitError", "Timeout">>
        => ret.exc = "Timeout"
    /\ history = <<"Timeout", "Timeout", "EthereumRateLimitError">>
        => ret.exc = "EthereumRateLimitError"

C19_Witness ==
    /\ history = <<"EthereumRateLimitError", "EthereumRateLimitError", "Timeout">>
    /\ pc = "ready"
    /\ ret.kind = "raise"
    /\ ret.exc = "Timeout"

BalanceCall == op = "balance" \/ (op = "tokenbalance" /\ contract # "")

ZeroAtOnce ==
    /\ CallOver
    /\ Latest = "return"
    /\ payload = PyList(0)
    /\ ret = [kind |-> "return", value |-> ZeroFloat]
    /\ sleeps = Count(RateLimited)
    /\ gets = 1 => sleeps = 0 /\ gap = NoGap

\* C20 as claimed: a status "0" envelope whose result is the no-records
\* sentinel makes get_balance and get_token_balance return 0.0 after that
\* attempt, without error or retry.
C20_SentinelBalanceIsZero ==
    (BalanceCall /\ SentinelEnvelope(last)) => ZeroAtOnce

\* C20 as amended: a status "0" envelope whose result is the no-records
\* sentinel and whose message does not contain the rate-limit marker makes
\* get_balance and get_token_balance return 0.0 after that attempt, without
\* error or retry.
C20_SentinelUnmarkedBalanceIsZero ==
    (BalanceCall /\ SentinelEnvelope(last) /\ ~HasMarker(last.data))
        => ZeroAtOnce

C20_Witness ==
    /\ op = "tokenbalance"
    /\ contract = "0xTOKEN"
    /\ SentinelEnvelope(last)
    /\ last.data.message = PyStr(<<"NOTOK">>)
    /\ gets = 1
    /\ payload = PyList(0)
    /\ ret = [kind |-> "return", value |-> ZeroFloat]

====
